---- MODULE Spec2Model ----
(***************************************************************************)
(* MongoDB Database Cloner: the job registry (cloningJobs), the HTTP       *)
(* handlers that create, read, list and delete jobs, and the clone engine  *)
(* (cloneDatabase) of src/index.js, one action per handler and one per     *)
(* suspension point (await) of the engine.                                 *)
(***************************************************************************)
EXTENDS Integers, Sequences, FiniteSets, TLC

VARIABLES
    clock,        \* Date.now(): the wall clock in milliseconds
    cloningJobs,  \* the Map of index.js:15: job id -> the job object (by engine number)
    job,          \* job[e]: the job object that the e-th clone request created
    eng,          \* eng[e]: the locals and the position of the e-th cloneDatabase call
    source,       \* the source database: collections, document counts, indexes
    target,       \* the target database: per collection its documents and indexes
    reply,        \* reply[e]: the response the e-th accepted clone request received
    divByZero,    \* divByZero[e]: engine e divided by a totalDocuments of 0
    srcWrites,    \* writes other clients made to the source database so far
    faults,       \* driver calls that raised an error so far
    collection,   \* the documents of the collection that the document routes work on
    calls         \* calls[c]: the c-th request to a database route: inputs, position, answer

vars == <<clock, cloningJobs, job, eng, source, target, reply, divByZero, srcWrites, faults,
          collection, calls>>

\* the state of the clone routes and the state of the database routes
cloner == <<clock, cloningJobs, job, eng, source, target, reply, divByZero, srcWrites>>
browser == <<collection, calls>>

----------------------------------------------------------------------------
(* Bounds of the model *)

MaxJobs == 2          \* clone requests accepted
MaxClock == 2         \* clock readings 1..MaxClock
MaxColls == 2         \* collections of the source database
MaxIndexes == 2       \* secondary indexes of a source collection
MaxSrcWrites == 1     \* writes by other clients to the source
MaxFaults == 2        \* driver calls that raise an error

(* Program constants *)

batchSize == 1000
Infinity == 2147483647    \* the IEEE value of x / 0 for x > 0: above every finite value

----------------------------------------------------------------------------
(* Data *)

AllColls == <<"c1", "c2", "c3", "c4", "c5">>
CollNames == {AllColls[k] : k \in 1..(MaxColls + 1)}
AllIndexes == <<"_id_", "ix1", "ix2", "ix3", "ix4">>
DocSizes == {0, 1, batchSize + 1}

undefined == <<>>
null == "null"

Min(a, b) == IF a < b THEN a ELSE b

\* Math.round of the quotient a / b * 100 for a >= 0: half rounds up; x / 0 is Infinity
Round(a, b) == IF b = 0 THEN Infinity ELSE (200 * a + b) \div (2 * b)

\* Date.now().toString()
JobIdOf(t) == ToString(t)
JobIds == {JobIdOf(t) : t \in 1..MaxClock}

\* documents.slice(j, j + batchSize) of the fetched documents, which carry _id 1..n
Slice(n, j) == (j + 1)..Min(j + batchSize, n)

----------------------------------------------------------------------------
(* The job object and the engine's locals *)

\* index.js:73-86: the entry the handler puts in the registry
NewJob(id, now) ==
    [id |-> id,
     status |-> "starting",
     progress |-> 0,
     details |-> <<"Initializing clone operation...">>,
     startTime |-> now,
     collections |-> <<>>,
     currentCollection |-> null,
     totalCollections |-> 0,
     processedCollections |-> 0,
     totalDocuments |-> 0,
     processedDocuments |-> 0,
     errors |-> <<>>,
     endTime |-> undefined]

\* index.js:129-132 and the locals declared further down cloneDatabase
NewEngine(databaseName) ==
    [pc |-> "start",
     databaseName |-> databaseName,
     srcConn |-> "none",       \* sourceClient: none (null), open, closed, closeFailed
     tgtConn |-> "none",       \* targetClient
     collections |-> <<>>,     \* const collections (names)
     totalDocs |-> 0,          \* let totalDocs
     k |-> 0,                  \* position of the counting loop
     i |-> 0,                  \* let i
     documents |-> 0,          \* const documents: the fetched documents, _id 1..documents
     j |-> 0,                  \* let j
     indexes |-> <<>>,         \* const indexes (names)
     x |-> 0]                  \* position of the index loop

\* A driver error's message
DriverError == <<"driver error">>
DuplicateKey == <<"E11000 duplicate key error">>

\* index.js:226-229: the finally block up to its first await
Finally(c) ==
    [c EXCEPT !.g.pc = IF c.g.srcConn # "none" THEN "closeSource"
                       ELSE IF c.g.tgtConn # "none" THEN "closeTarget"
                       ELSE "done"]

\* Catch without the push of the message to errors
CatchWithoutPush(c, message, now) ==
    Finally([c EXCEPT !.j.status = "failed",
                      !.j.details = <<"Error: ">> \o message,
                      !.j.endTime = <<now>>])

\* Catch that replaces errors by the fatal message alone
CatchResettingErrors(c, message, now) ==
    Finally([c EXCEPT !.j.status = "failed",
                      !.j.details = <<"Error: ">> \o message,
                      !.j.errors = <<message>>,
                      !.j.endTime = <<now>>])

\* Catch that records the error and leaves the status as it is
CatchKeepingStatus(c, message, now) ==
    Finally([c EXCEPT !.j.details = <<"Error: ">> \o message,
                      !.j.errors = Append(@, message),
                      !.j.endTime = <<now>>])

\* index.js:221-225: the catch block, then the finally block
Catch(c, message, now) ==
    Finally([c EXCEPT !.j.status = "failed",
                      !.j.details = <<"Error: ">> \o message,
                      !.j.errors = Append(@, message),
                      !.j.endTime = <<now>>])

\* Completed without the assignment of endTime
CompletedWithoutEndTime(c, now) ==
    Finally([c EXCEPT !.j.status = "completed",
                      !.j.progress = 100,
                      !.j.details = <<"Successfully cloned database '", c.g.databaseName,
                                      "' with ", ToString(c.j.totalCollections),
                                      " collections and ", ToString(c.j.totalDocuments),
                                      " documents">>])

\* index.js:216-219, then the finally block
Completed(c, now) ==
    Finally([c EXCEPT !.j.status = "completed",
                      !.j.progress = 100,
                      !.j.details = <<"Successfully cloned database '", c.g.databaseName,
                                      "' with ", ToString(c.j.totalCollections),
                                      " collections and ", ToString(c.j.totalDocuments),
                                      " documents">>,
                      !.j.endTime = <<now>>])

\* index.js:166-176: the head of the collection loop, up to the await of drop()
LoopHead(c, now) ==
    IF c.g.i < Len(c.g.collections)
    THEN [c EXCEPT !.j.currentCollection = c.g.collections[c.g.i + 1],
                   !.j.details = <<"Cloning collection: ", c.g.collections[c.g.i + 1]>>,
                   !.g.pc = "drop"]
    ELSE Completed(c, now)

\* AfterCountLoop that starts the collection loop with the status still analyzing
AfterCountLoopStillAnalyzing(c, now) ==
    LoopHead([c EXCEPT !.j.totalDocuments = c.g.totalDocs,
                       !.j.details = <<"Starting to clone ", ToString(Len(c.g.collections)),
                                       " collections...">>,
                       !.g.i = 0],
             now)

\* index.js:160-165: after the counting loop
AfterCountLoop(c, now) ==
    LoopHead([c EXCEPT !.j.totalDocuments = c.g.totalDocs,
                       !.j.status = "cloning",
                       !.j.details = <<"Starting to clone ", ToString(Len(c.g.collections)),
                                       " collections...">>,
                       !.g.i = 0],
             now)

\* index.js:156-159: the counting loop's head
CountLoop(c, now) ==
    IF c.g.k < Len(c.g.collections)
    THEN [c EXCEPT !.g.k = c.g.k + 1, !.g.pc = "count"]
    ELSE AfterCountLoop(c, now)

\* the next position >= x of indexes whose name is not _id_ (index.js:199-200)
RECURSIVE NextIndex(_, _)
NextIndex(indexes, x) ==
    IF x > Len(indexes) THEN x
    ELSE IF indexes[x] # "_id_" THEN x
    ELSE NextIndex(indexes, x + 1)

\* IndexLoop with processedCollections++ inside the index loop
IndexLoopCountingIndexes(c, x, now) ==
    LET y == NextIndex(c.g.indexes, x) IN
    IF y <= Len(c.g.indexes)
    THEN [c EXCEPT !.j.processedCollections = @ + 1, !.g.x = y, !.g.pc = "createIndex"]
    ELSE LoopHead([c EXCEPT !.g.i = @ + 1,
                            !.g.x = 0, !.g.j = 0, !.g.documents = 0, !.g.indexes = <<>>],
                  now)

\* index.js:199-214: the index loop from position x, then the end of the collection
IndexLoop(c, x, now) ==
    LET y == NextIndex(c.g.indexes, x) IN
    IF y <= Len(c.g.indexes)
    THEN [c EXCEPT !.g.x = y, !.g.pc = "createIndex"]
    ELSE LoopHead([c EXCEPT !.j.processedCollections = @ + 1,
                            !.g.i = @ + 1,
                            !.g.x = 0, !.g.j = 0, !.g.documents = 0, !.g.indexes = <<>>],
                  now)

\* index.js:187-195: the batch loop's head at position j
BatchLoop(c, j) ==
    IF j < c.g.documents
    THEN [c EXCEPT !.g.j = j, !.g.pc = "insert"]
    ELSE [c EXCEPT !.g.j = 0, !.g.pc = "listIndexes"]

Ctx(e) == [j |-> job[e], g |-> eng[e]]

\* Put that looks the job object up in the registry by its identifier on each write
PutByJobId(e, c) ==
    LET w == IF c.j.id \in DOMAIN cloningJobs THEN cloningJobs[c.j.id] ELSE e IN
    /\ job' = [job EXCEPT ![w] = c.j]
    /\ eng' = [eng EXCEPT ![e] = c.g]

\* index.js:130: the engine writes the job object it took from the registry at its
\* start, and its own locals
Put(e, c) ==
    /\ job' = [job EXCEPT ![e] = c.j]
    /\ eng' = [eng EXCEPT ![e] = c.g]

Engines == 1..Len(eng)

----------------------------------------------------------------------------
(* The databases *)

Prefix(s, n) == SubSeq(s, 1, n)
Range(s) == {s[k] : k \in 1..Len(s)}

IndexChoices == {Prefix(AllIndexes, m + 1) : m \in 0..MaxIndexes}

\* the source databases: the first nc collections, each of a size of DocSizes, all
\* with the same secondary indexes
Sources ==
    UNION {[colls : {Prefix(AllColls, nc)},
            docs : [Range(Prefix(AllColls, nc)) -> DocSizes],
            indexes : {[n \in Range(Prefix(AllColls, nc)) |-> ix] : ix \in IndexChoices}] :
           nc \in 0..MaxColls}

TargetNames == Range(Prefix(AllColls, MaxColls)) \cup {"old"}

Absent == [exists |-> FALSE, docs |-> {}, indexes |-> {}]
Existing == [exists |-> TRUE, docs |-> {0, 1}, indexes |-> {}]

Targets == {[n \in TargetNames |-> IF n \in P THEN Existing ELSE Absent] :
                P \in {{}, TargetNames}}

----------------------------------------------------------------------------
(* Responses *)

NoResponse == [status |-> 0, kind |-> "none", jobId |-> "", job |-> 0, jobs |-> {}]
Response(status, kind) == [NoResponse EXCEPT !.status = status, !.kind = kind]

\* the values a connection string or a database name of a request body takes:
\* missing (falsy) or present
Inputs == {"", "given"}

\* the state after the module is loaded (index.js:15), with the databases S and T
InitWith(S, T) ==
    /\ clock = 1
    /\ cloningJobs = [id \in {} |-> 0]
    /\ job = <<>>
    /\ eng = <<>>
    /\ source \in S
    /\ target \in T
    /\ reply = <<>>
    /\ divByZero = <<>>
    /\ srcWrites = 0
    /\ faults = 0
    /\ collection = <<>>
    /\ calls = <<>>

Init == InitWith(Sources, Targets)

----------------------------------------------------------------------------
(* The environment *)

\* Date.now() advances
Tick ==
    /\ clock < MaxClock
    /\ clock' = clock + 1
    /\ UNCHANGED <<cloningJobs, job, eng, source, target, reply, divByZero, srcWrites, faults,
                   browser>>

\* another client of the source database inserts or removes documents
SourceWrite(name, n) ==
    /\ srcWrites < MaxSrcWrites
    /\ name \in DOMAIN source.docs
    /\ n # source.docs[name]
    /\ source' = [source EXCEPT !.docs[name] = n]
    /\ srcWrites' = srcWrites + 1
    /\ UNCHANGED <<clock, cloningJobs, job, eng, target, reply, divByZero, faults, browser>>

----------------------------------------------------------------------------
(* The handlers of the job registry *)

\* index.js:134-140: cloneDatabase up to its first await
CloneDatabaseStart(c) ==
    [c EXCEPT !.j.status = "connecting",
              !.j.details = <<"Connecting to source and target databases...">>,
              !.g.pc = "connectSource"]

\* index.js:91-95
Started(jobId) == [Response(200, "started") EXCEPT !.jobId = jobId]

\* CloneDatabase without the check of databaseName
CloneDatabaseNoNameCheck(sourceConnection, targetConnection, databaseName) ==
    IF sourceConnection = "" \/ targetConnection = ""
    THEN [res |-> Response(400, "error"),
          cloningJobs |-> cloningJobs, job |-> job, eng |-> eng]
    ELSE LET jobId == JobIdOf(clock)
             c == CloneDatabaseStart([j |-> NewJob(jobId, clock),
                                      g |-> NewEngine(databaseName)])
         IN [res |-> Started(jobId),
             cloningJobs |-> (jobId :> (Len(job) + 1)) @@ cloningJobs,
             job |-> Append(job, c.j),
             eng |-> Append(eng, c.g)]

\* index.js:61-96: POST /api/clone-database: the response and the handler's writes
CloneDatabase(sourceConnection, targetConnection, databaseName) ==
    IF sourceConnection = "" \/ targetConnection = "" \/ databaseName = ""
    THEN [res |-> Response(400, "error"),
          cloningJobs |-> cloningJobs, job |-> job, eng |-> eng]
    ELSE LET jobId == JobIdOf(clock)
             c == CloneDatabaseStart([j |-> NewJob(jobId, clock),
                                      g |-> NewEngine(databaseName)])
         IN [res |-> Started(jobId),
             cloningJobs |-> (jobId :> (Len(job) + 1)) @@ cloningJobs,
             job |-> Append(job, c.j),
             eng |-> Append(eng, c.g)]

CloneDatabaseRequest(sourceConnection, targetConnection, databaseName) ==
    LET r == CloneDatabase(sourceConnection, targetConnection, databaseName) IN
    /\ Len(r.job) <= MaxJobs
    /\ cloningJobs' = r.cloningJobs
    /\ job' = r.job
    /\ eng' = r.eng
    /\ reply' = IF Len(r.job) > Len(job) THEN Append(reply, r.res) ELSE reply
    /\ divByZero' = IF Len(r.job) > Len(job) THEN Append(divByZero, FALSE) ELSE divByZero
    /\ UNCHANGED <<clock, source, target, srcWrites, faults, browser>>

\* index.js:99-108: GET /api/clone-status/:jobId: the response
CloneStatus(jobId) ==
    IF jobId \in DOMAIN cloningJobs
    THEN [Response(200, "job") EXCEPT !.job = cloningJobs[jobId]]
    ELSE Response(404, "error")

CloneStatusRequest(jobId) ==
    /\ CloneStatus(jobId).status \in {200, 404}
    /\ UNCHANGED vars

\* index.js:111-114: GET /api/jobs: the response
Jobs == [Response(200, "jobs") EXCEPT !.jobs = {cloningJobs[id] : id \in DOMAIN cloningJobs}]

JobsRequest ==
    /\ Jobs.status = 200
    /\ UNCHANGED vars

\* DeleteJob that answers success whether or not the registry held jobId
DeleteJobAlwaysDeleted(jobId) ==
    [res |-> Response(200, "deleted"),
     cloningJobs |-> [id \in DOMAIN cloningJobs \ {jobId} |-> cloningJobs[id]]]

\* DeleteJob that answers success and keeps the entry
DeleteJobKeepingEntry(jobId) ==
    [res |-> IF jobId \in DOMAIN cloningJobs
             THEN Response(200, "deleted")
             ELSE Response(404, "error"),
     cloningJobs |-> cloningJobs]

\* index.js:117-126: DELETE /api/jobs/:jobId: the response and the handler's write
DeleteJob(jobId) ==
    [res |-> IF jobId \in DOMAIN cloningJobs
             THEN Response(200, "deleted")
             ELSE Response(404, "error"),
     cloningJobs |-> [id \in DOMAIN cloningJobs \ {jobId} |-> cloningJobs[id]]]

DeleteJobRequest(jobId) ==
    /\ cloningJobs' = DeleteJob(jobId).cloningJobs
    /\ UNCHANGED <<clock, job, eng, source, target, reply, divByZero, srcWrites, faults, browser>>

----------------------------------------------------------------------------
(* The clone engine: one action per await of cloneDatabase.  Each driver    *)
(* call either returns or raises.                                          *)

\* the awaited driver call returns
Returns == UNCHANGED faults

\* the awaited driver call raises an error
Raises == faults < MaxFaults /\ faults' = faults + 1

\* the collection the loop at index.js:166 is at
CollectionName(e) == eng[e].collections[eng[e].i + 1]

\* index.js:18-26, 140: connectToMongoDB(sourceConnection) settles
ConnectSource(e) ==
    /\ eng[e].pc = "connectSource"
    /\ \/ /\ Returns
          /\ Put(e, [Ctx(e) EXCEPT !.g.srcConn = "open", !.g.pc = "connectTarget"])
       \/ /\ Raises
          /\ Put(e, Catch(Ctx(e), <<"Connection failed: ">> \o DriverError, clock))
    /\ UNCHANGED <<clock, cloningJobs, source, target, reply, divByZero, srcWrites, browser>>

\* index.js:141-150: connectToMongoDB(targetConnection) settles
ConnectTarget(e) ==
    /\ eng[e].pc = "connectTarget"
    /\ \/ /\ Returns
          /\ Put(e, [Ctx(e) EXCEPT !.g.tgtConn = "open",
                                   !.j.status = "analyzing",
                                   !.j.details = <<"Analyzing source database structure...">>,
                                   !.g.pc = "listCollections"])
       \/ /\ Raises
          /\ Put(e, Catch(Ctx(e), <<"Connection failed: ">> \o DriverError, clock))
    /\ UNCHANGED <<clock, cloningJobs, source, target, reply, divByZero, srcWrites, browser>>

\* index.js:150-157: listCollections().toArray() settles
ListCollections(e) ==
    /\ eng[e].pc = "listCollections"
    /\ \/ /\ Returns
          /\ Put(e, CountLoop([Ctx(e) EXCEPT !.j.totalCollections = Len(source.colls),
                                             !.j.collections = source.colls,
                                             !.g.collections = source.colls,
                                             !.g.totalDocs = 0,
                                             !.g.k = 0],
                               clock))
       \/ /\ Raises
          /\ Put(e, Catch(Ctx(e), DriverError, clock))
    /\ UNCHANGED <<clock, cloningJobs, source, target, reply, divByZero, srcWrites, browser>>

\* index.js:157-158: countDocuments() settles
CountDocuments(e) ==
    /\ eng[e].pc = "count"
    /\ \/ /\ Returns
          /\ LET count == source.docs[eng[e].collections[eng[e].k]] IN
             Put(e, CountLoop([Ctx(e) EXCEPT !.g.totalDocs = @ + count], clock))
       \/ /\ Raises
          /\ Put(e, Catch(Ctx(e), DriverError, clock))
    /\ UNCHANGED <<clock, cloningJobs, source, target, reply, divByZero, srcWrites, browser>>

\* Drop with no try around drop(): its error reaches the outer catch
DropFatal(e) ==
    /\ eng[e].pc = "drop"
    /\ \/ /\ target[CollectionName(e)].exists
          /\ Returns
          /\ target' = [target EXCEPT ![CollectionName(e)] = Absent]
          /\ Put(e, [Ctx(e) EXCEPT !.g.pc = "find"])
       \/ /\ ~target[CollectionName(e)].exists
          /\ Returns
          /\ UNCHANGED target
          /\ Put(e, [Ctx(e) EXCEPT !.g.pc = "find"])
       \/ /\ target[CollectionName(e)].exists
          /\ Raises
          /\ UNCHANGED target
          /\ Put(e, Catch(Ctx(e), DriverError, clock))
    /\ UNCHANGED <<clock, cloningJobs, source, reply, divByZero, srcWrites, browser>>

\* index.js:175-182: targetCollection.drop() settles; its error is ignored
Drop(e) ==
    /\ eng[e].pc = "drop"
    /\ \/ /\ target[CollectionName(e)].exists
          /\ Returns
          /\ target' = [target EXCEPT ![CollectionName(e)] = Absent]
       \/ /\ ~target[CollectionName(e)].exists      \* nothing to drop: "ns not found"
          /\ Returns
          /\ UNCHANGED target
       \/ /\ target[CollectionName(e)].exists
          /\ Raises
          /\ UNCHANGED target
    /\ Put(e, [Ctx(e) EXCEPT !.g.pc = "find"])
    /\ UNCHANGED <<clock, cloningJobs, source, reply, divByZero, srcWrites, browser>>

\* index.js:182-189: find({}).toArray() settles
Find(e) ==
    /\ eng[e].pc = "find"
    /\ \/ /\ Returns
          /\ Put(e, BatchLoop([Ctx(e) EXCEPT !.g.documents = source.docs[CollectionName(e)]],
                               0))
       \/ /\ Raises
          /\ Put(e, Catch(Ctx(e), DriverError, clock))
    /\ UNCHANGED <<clock, cloningJobs, source, target, reply, divByZero, srcWrites, browser>>

\* Inserted that adds batchSize, not batch.length, to processedDocuments
InsertedBatchSize(c, size) ==
    [c EXCEPT !.j.processedDocuments = @ + batchSize,
              !.j.progress = Round(c.j.processedDocuments + batchSize, c.j.totalDocuments)]

\* index.js:190-193: the statements after a successful insertMany(batch)
Inserted(c, size) ==
    [c EXCEPT !.j.processedDocuments = @ + size,
              !.j.progress = Round(c.j.processedDocuments + size, c.j.totalDocuments)]

\* the documents of a batch that an ordered insertMany writes before the first
\* document whose _id the collection already holds
BeforeDuplicate(batch, docs) ==
    {d \in batch : \A f \in batch \cap docs : d < f}

\* index.js:189-198: insertMany(batch) settles
InsertMany(e) ==
    LET name == CollectionName(e)
        batch == Slice(eng[e].documents, eng[e].j)
        size == Min(eng[e].j + batchSize, eng[e].documents) - eng[e].j
    IN
    /\ eng[e].pc = "insert"
    /\ \/ /\ batch \cap target[name].docs = {}
          /\ Returns
          /\ target' = [target EXCEPT ![name].exists = TRUE, ![name].docs = @ \cup batch]
          /\ Put(e, BatchLoop(Inserted(Ctx(e), size), eng[e].j + batchSize))
          /\ divByZero' = [divByZero EXCEPT ![e] = @ \/ job[e].totalDocuments = 0]
       \/ /\ batch \cap target[name].docs # {}      \* raises whatever the budget
          /\ faults' = faults + 1
          /\ target' = [target EXCEPT ![name].docs = @ \cup BeforeDuplicate(batch, @)]
          /\ Put(e, Catch(Ctx(e), DuplicateKey, clock))
          /\ UNCHANGED divByZero
       \/ /\ Raises
          /\ Put(e, Catch(Ctx(e), DriverError, clock))
          /\ UNCHANGED <<target, divByZero>>
    /\ UNCHANGED <<clock, cloningJobs, source, reply, srcWrites, browser>>

\* index.js:198-206: listIndexes().toArray() settles
ListIndexes(e) ==
    /\ eng[e].pc = "listIndexes"
    /\ \/ /\ Returns
          /\ Put(e, IndexLoop([Ctx(e) EXCEPT !.g.indexes = source.indexes[CollectionName(e)]],
                               1, clock))
       \/ /\ Raises
          /\ Put(e, Catch(Ctx(e), DriverError, clock))
    /\ UNCHANGED <<clock, cloningJobs, source, target, reply, divByZero, srcWrites, browser>>

\* index.js:208: the message of a failed index creation
IndexError(index, collectionName, message) ==
    <<"Failed to create index ", index, " on ", collectionName, ": ">> \o message

\* CreateIndex with no try around createIndex(): its error reaches the outer catch
CreateIndexFatal(e) ==
    LET name == CollectionName(e)
        index == eng[e].indexes[eng[e].x]
    IN
    /\ eng[e].pc = "createIndex"
    /\ \/ /\ Returns
          /\ target' = [target EXCEPT ![name].exists = TRUE, ![name].indexes = @ \cup {index}]
          /\ Put(e, IndexLoop(Ctx(e), eng[e].x + 1, clock))
       \/ /\ Raises
          /\ UNCHANGED target
          /\ Put(e, Catch(Ctx(e), DriverError, clock))
    /\ UNCHANGED <<clock, cloningJobs, source, reply, divByZero, srcWrites, browser>>

\* index.js:206-214: createIndex() settles
CreateIndex(e) ==
    LET name == CollectionName(e)
        index == eng[e].indexes[eng[e].x]
    IN
    /\ eng[e].pc = "createIndex"
    /\ \/ /\ Returns
          /\ target' = [target EXCEPT ![name].exists = TRUE, ![name].indexes = @ \cup {index}]
          /\ Put(e, IndexLoop(Ctx(e), eng[e].x + 1, clock))
       \/ /\ Raises
          /\ UNCHANGED target
          /\ Put(e, IndexLoop([Ctx(e) EXCEPT !.j.errors =
                                   Append(@, IndexError(index, name, DriverError))],
                              eng[e].x + 1, clock))
    /\ UNCHANGED <<clock, cloningJobs, source, reply, divByZero, srcWrites, browser>>

\* CloseSource with close() inside the try block: its error reaches the catch
CloseSourceInsideTry(e) ==
    /\ eng[e].pc = "closeSource"
    /\ \/ /\ Returns
          /\ Put(e, [Ctx(e) EXCEPT !.g.srcConn = "closed",
                                   !.g.pc = IF eng[e].tgtConn # "none"
                                            THEN "closeTarget" ELSE "done"])
       \/ /\ Raises
          /\ Put(e, [Catch(Ctx(e), DriverError, clock) EXCEPT
                         !.g.srcConn = "closeFailed", !.g.pc = "done"])
    /\ UNCHANGED <<clock, cloningJobs, source, target, reply, divByZero, srcWrites, browser>>

\* index.js:227-228: sourceClient.close() settles; a rejection leaves the function
CloseSource(e) ==
    /\ eng[e].pc = "closeSource"
    /\ \/ /\ Returns
          /\ Put(e, [Ctx(e) EXCEPT !.g.srcConn = "closed",
                                   !.g.pc = IF eng[e].tgtConn # "none"
                                            THEN "closeTarget" ELSE "done"])
       \/ /\ Raises
          /\ Put(e, [Ctx(e) EXCEPT !.g.srcConn = "closeFailed", !.g.pc = "done"])
    /\ UNCHANGED <<clock, cloningJobs, source, target, reply, divByZero, srcWrites, browser>>

\* index.js:228-230: targetClient.close() settles
CloseTarget(e) ==
    /\ eng[e].pc = "closeTarget"
    /\ \/ /\ Returns
          /\ Put(e, [Ctx(e) EXCEPT !.g.tgtConn = "closed", !.g.pc = "done"])
       \/ /\ Raises
          /\ Put(e, [Ctx(e) EXCEPT !.g.tgtConn = "closeFailed", !.g.pc = "done"])
    /\ UNCHANGED <<clock, cloningJobs, source, target, reply, divByZero, srcWrites, browser>>

\* Step of an engine that stops once its job is no longer in the registry
StepWhileListed(e) ==
    /\ job[e].id \in DOMAIN cloningJobs
    /\ \/ ConnectSource(e)
       \/ ConnectTarget(e)
       \/ ListCollections(e)
       \/ CountDocuments(e)
       \/ Drop(e)
       \/ Find(e)
       \/ InsertMany(e)
       \/ ListIndexes(e)
       \/ CreateIndex(e)
       \/ CloseSource(e)
       \/ CloseTarget(e)

\* index.js:129-230: cloneDatabase resumes after the await it is suspended at
Step(e) ==
    \/ ConnectSource(e)
    \/ ConnectTarget(e)
    \/ ListCollections(e)
    \/ CountDocuments(e)
    \/ Drop(e)
    \/ Find(e)
    \/ InsertMany(e)
    \/ ListIndexes(e)
    \/ CreateIndex(e)
    \/ CloseSource(e)
    \/ CloseTarget(e)

\* One clone job on a source database that other clients write to.
FirstCloneDatabaseRequest ==
    /\ Len(job) = 0
    /\ CloneDatabaseRequest("given", "given", "given")

EngineNext ==
    \/ Tick
    \/ \E name \in CollNames, n \in DocSizes : SourceWrite(name, n)
    \/ FirstCloneDatabaseRequest
    \/ \E e \in Engines : Step(e)

SpecEngine == Init /\ [][EngineNext]_vars

\* every driver call that an engine awaits settles: it returns or it raises
DriverCallsSettle == \A e \in 1..MaxJobs : WF_vars(e \in Engines /\ Step(e))

\* SpecEngine with driver calls that settle
SpecEngineSettling == SpecEngine /\ DriverCallsSettle

\* Every request of the job registry, with up to MaxJobs clone jobs of a source
\* database that holds one collection of one document and one secondary index
\* and does not change.
RegistrySources ==
    {s \in Sources : /\ Len(s.colls) = 1
                     /\ \A n \in DOMAIN s.docs : s.docs[n] = 1 /\ Len(s.indexes[n]) = 2}

RegistryNext ==
    \/ Tick
    \/ \E sc \in Inputs, tc \in Inputs, db \in Inputs : CloneDatabaseRequest(sc, tc, db)
    \/ \E id \in JobIds : CloneStatusRequest(id)
    \/ JobsRequest
    \/ \E id \in JobIds : DeleteJobRequest(id)
    \/ \E e \in Engines : Step(e)

SpecRegistry == InitWith(RegistrySources, Targets) /\ [][RegistryNext]_vars

----------------------------------------------------------------------------
(* The database routes of src/unnamed/part_000: documents and generateSchema *)

MaxDocs == 2          \* documents of the collection in the initial state
MaxCalls == 2         \* requests to the database routes

\* JavaScript values as generateSchema looks at them: typeof, Array.isArray,
\* === null, constructor.name, instanceof Date
JsValue(typeof, constructor, isArray, isNull, isDate, v) ==
    [typeof |-> typeof, constructor |-> constructor, isArray |-> isArray,
     isNull |-> isNull, isDate |-> isDate, v |-> v]

NumberValue(n) == JsValue("number", "Number", FALSE, FALSE, FALSE, n)
StringValue(n) == JsValue("string", "String", FALSE, FALSE, FALSE, n)
BooleanValue(n) == JsValue("boolean", "Boolean", FALSE, FALSE, FALSE, n)
NullValue == JsValue("object", "", FALSE, TRUE, FALSE, 0)
ArrayValue == JsValue("object", "Array", TRUE, FALSE, FALSE, 0)
DateValue == JsValue("object", "Date", FALSE, FALSE, TRUE, 0)
ObjectValue == JsValue("object", "Object", FALSE, FALSE, FALSE, 0)
ObjectIdValue(n) == JsValue("object", "ObjectId", FALSE, FALSE, FALSE, n)

\* part_000:32-37: the kind of a value
TypeOf(value) ==
    IF value.isArray THEN "array"
    ELSE IF value.isNull THEN "null"
    ELSE IF value.typeof = "object" /\ value.constructor = "ObjectId" THEN "ObjectId"
    ELSE IF value.typeof = "object" /\ value.isDate THEN "date"
    ELSE IF value.typeof = "object" THEN "object"
    ELSE value.typeof

\* the keys a document may have, in the order Object.keys lists them
FieldOrder == <<"_id", "a", "b", "constructor">>

\* the properties every object literal inherits from Object.prototype
ObjectPrototype ==
    {"constructor", "toString", "toLocaleString", "valueOf", "hasOwnProperty",
     "isPrototypeOf", "propertyIsEnumerable", "__proto__"}

\* Object.keys(doc)
Keys(doc) == SelectSeq(FieldOrder, LAMBDA field : field \in DOMAIN doc)

\* part_000:26-45: the body of the inner forEach for one field of one document.
\* schema[field] of a field that schema does not own but Object.prototype has is an
\* inherited function: it is truthy, so no entry is made, and its .types is
\* undefined, so .types.add raises a TypeError.
SchemaField(acc, doc, field) ==
    IF acc.threw THEN acc
    ELSE IF field \notin DOMAIN acc.schema /\ field \in ObjectPrototype
    THEN [threw |-> TRUE, schema |-> acc.schema]
    ELSE LET entry == IF field \in DOMAIN acc.schema
                      THEN acc.schema[field]
                      ELSE [types |-> <<>>, required |-> 0, examples |-> <<>>]
             type == TypeOf(doc[field])
         IN [threw |-> FALSE,
             schema |-> (field :> [types |-> IF type \in Range(entry.types)
                                             THEN entry.types
                                             ELSE Append(entry.types, type),
                                   required |-> entry.required + 1,
                                   examples |-> IF Len(entry.examples) < 3
                                                THEN Append(entry.examples, doc[field])
                                                ELSE entry.examples])
                        @@ acc.schema]

\* part_000:25: Object.keys(doc).forEach
RECURSIVE SchemaFields(_, _, _)
SchemaFields(acc, doc, fields) ==
    IF fields = <<>> THEN acc
    ELSE SchemaFields(SchemaField(acc, doc, Head(fields)), doc, Tail(fields))

\* part_000:24: documents.forEach
RECURSIVE SchemaDocuments(_, _)
SchemaDocuments(acc, documents) ==
    IF documents = <<>> THEN acc
    ELSE SchemaDocuments(SchemaFields(acc, Head(documents), Keys(Head(documents))),
                         Tail(documents))

\* part_000:18-56: generateSchema(documents): the schema it returns, or threw
generateSchema(documents) ==
    IF Len(documents) = 0 THEN [threw |-> FALSE, schema |-> <<>>]
    ELSE LET acc == SchemaDocuments([threw |-> FALSE, schema |-> <<>>], documents) IN
         IF acc.threw THEN acc
         ELSE [threw |-> FALSE,
               schema |-> [field \in DOMAIN acc.schema |->
                              [types |-> acc.schema[field].types,
                               required |-> acc.schema[field].required,
                               examples |-> acc.schema[field].examples,
                               requiredPercentage |->
                                   Round(acc.schema[field].required, Len(documents))]]]

\* the fields of the documents the collection may hold, without _id
Bodies ==
    {[a |-> NumberValue(1)],
     [a |-> StringValue(1), b |-> BooleanValue(1)],
     [a |-> NullValue, b |-> ArrayValue],
     [a |-> DateValue, b |-> ObjectValue],
     [constructor |-> StringValue(1)]}

\* the document that the driver stores for a body: _id is the n-th ObjectId
WithId(body, n) == ("_id" :> ObjectIdValue(n)) @@ body

\* the collections of the initial state: up to MaxDocs documents, _id 1, 2, ...
Collections ==
    UNION {{[k \in 1..n |-> WithId(b[k], k)] : b \in [1..n -> Bodies]} : n \in 0..MaxDocs}

\* the 24 digit hex strings of the ObjectIds 1, 2, ...
ObjectIdStrings ==
    <<"000000000000000000000001", "000000000000000000000002",
      "000000000000000000000003", "000000000000000000000004",
      "000000000000000000000005", "000000000000000000000006",
      "000000000000000000000007", "000000000000000000000008">>

\* the values of documentId that are JSON numbers, written as their digits
JsNumbers == {"12345"}

\* new ObjectId(documentId) (part_000:346, 383, 418) returns for a string of 24 hex
\* digits, and for a number, from which it generates a new ObjectId with that
\* timestamp; for any other string it throws
IsHexString(documentId) ==
    \E n \in 1..Len(ObjectIdStrings) : ObjectIdStrings[n] = documentId
IsObjectId(documentId) == IsHexString(documentId) \/ documentId \in JsNumbers

\* the ObjectId that new ObjectId(documentId) returns: 0 is a generated one, which
\* no document carries
ObjectIdOf(documentId) ==
    IF IsHexString(documentId)
    THEN CHOOSE n \in 1..Len(ObjectIdStrings) : ObjectIdStrings[n] = documentId
    ELSE 0

\* the values of documentId in a request body: missing, a string that is no
\* ObjectId, a number, two ObjectIds
DocumentIds ==
    {"", "not-an-object-id"} \cup JsNumbers \cup {ObjectIdStrings[1], ObjectIdStrings[2]}

\* the values of filter, document or updates in a request body: missing, an object,
\* a string of JSON, a string that is not JSON, a string of white space
Texts == {"", "object", "json", "notjson", "blank"}

\* JSON.parse(text) throws (part_000:245, 296, 336)
JsonParseThrows(text) == text \in {"notjson", "blank"}

\* a value of parsedFilter: an object, given by its <<field, value>> pairs, or a
\* string. The object that a filter of the request stands for is {b: true}
FilterObject == [typeof |-> "object", fields |-> {<<"b", BooleanValue(1)>>}]
EmptyFilter == [typeof |-> "object", fields |-> {}]
StringFilter == [typeof |-> "string", fields |-> {}]

\* part_000:241-249: parsedFilter. A missing filter is {}; an object is itself; a
\* string with something left after trim() is parsed, and {} if that throws; any
\* other string stays the string it is
ParsedFilter(text) ==
    CASE text = "" -> EmptyFilter
      [] text \in {"object", "json"} -> FilterObject
      [] text = "notjson" -> EmptyFilter
      [] text = "blank" -> StringFilter

\* the documents that a filter object selects: those with each of its fields
Select(filter, documents) ==
    SelectSeq(documents,
              LAMBDA d : \A f \in filter.fields : f[1] \in DOMAIN d /\ d[f[1]] = f[2])

\* const { page = 1, limit = 20 } = req.body (part_000:228)
page == 1
limit == 20

\* the fields a create request stores and an update request sets
NewBody == [b |-> BooleanValue(1)]
Updates == [a |-> StringValue(2)]

Ops == {"test", "collections", "documents", "create", "update", "delete", "get"}

\* cursor.limit(n).toArray(): a limit of 0 is no limit
Limit(n, documents) ==
    IF n = 0 THEN documents ELSE SubSeq(documents, 1, Min(n, Len(documents)))

\* the positions of the documents of the collection with the ObjectId n
Matching(n) == {k \in 1..Len(collection) : collection[k]["_id"] = ObjectIdValue(n)}

\* the locals of one request to a database route
NewCall(op, documentId, text) ==
    [op |-> op,
     pc |-> "connect",
     documentId |-> documentId,
     text |-> text,
     parsedFilter |-> EmptyFilter,   \* let parsedFilter (documents route)
     documents |-> <<>>,       \* const documents (documents route)
     client |-> "none",        \* const client: none, open, closed, closeFailed
     clientStats |-> "none",   \* const clientStats (collections route)
     totalCount |-> 0,         \* const totalCount (documents route)
     sampled |-> FALSE,        \* the find of line 256 returned sampleDocs
     sampleDocs |-> <<>>,      \* const sampleDocs (documents route)
     schema |-> <<>>,          \* const schema (documents route)
     matched |-> 0,            \* matchedCount, deletedCount, or 1 for a found document
     res |-> NoResponse]

\* res.status(status).json(...): the handler answers and ends
Answer(r, status, kind) == [r EXCEPT !.res = Response(status, kind), !.pc = "done"]

\* the catch block of every database route: res.status(400).json({success: false, ...})
CatchRoute(r) == Answer(r, 400, "error")

\* the checks of the request body at the head of each route
Missing(op, connectionString, databaseName, collectionName, documentId, text) ==
    CASE op = "test" -> connectionString = ""
      [] op = "collections" -> connectionString = "" \/ databaseName = ""
      [] op = "documents" ->
            connectionString = "" \/ databaseName = "" \/ collectionName = ""
      [] op = "create" ->
            connectionString = "" \/ databaseName = "" \/ collectionName = "" \/ text = ""
      [] op = "update" ->
            \/ connectionString = "" \/ databaseName = "" \/ collectionName = ""
            \/ documentId = "" \/ text = ""
      [] op \in {"delete", "get"} ->
            connectionString = "" \/ databaseName = "" \/ collectionName = ""
            \/ documentId = ""

\* a route up to its first await: the answer 400, or the call waiting for its connect
Route(op, connectionString, databaseName, collectionName, documentId, text) ==
    LET r == NewCall(op,
                     IF op \in {"update", "delete", "get"} THEN documentId ELSE "",
                     IF op \in {"documents", "create", "update"} THEN text ELSE "")
    IN IF Missing(op, connectionString, databaseName, collectionName, documentId, text)
       THEN Answer(r, 400, "error")
       ELSE r

DatabaseRequest(op, connectionString, databaseName, collectionName, documentId, text) ==
    /\ Len(calls) < MaxCalls
    /\ calls' = Append(calls, Route(op, connectionString, databaseName, collectionName,
                                    documentId, text))
    /\ UNCHANGED <<cloner, faults, collection>>

Calls == 1..Len(calls)

SetCall(c, r) == calls' = [calls EXCEPT ![c] = r]

\* part_000:344-346, 382-383, 417-418: new ObjectId(documentId) throws into the catch
\* block or the route goes on to its query
AfterParse(r, pc) ==
    IF IsObjectId(r.documentId) THEN [r EXCEPT !.pc = pc] ELSE CatchRoute(r)

\* a route from the return of its connect to its next await
AfterConnect(r) ==
    CASE r.op = "test" -> [r EXCEPT !.pc = "listDatabases"]
      [] r.op = "collections" -> [r EXCEPT !.pc = "listCollections"]
      [] r.op = "documents" ->
            [r EXCEPT !.parsedFilter = ParsedFilter(r.text), !.pc = "findPage"]
      [] r.op = "create" ->
            IF JsonParseThrows(r.text) THEN [r EXCEPT !.pc = "closeInvalid"]
            ELSE [r EXCEPT !.pc = "insertOne"]
      [] r.op = "update" ->
            IF JsonParseThrows(r.text) THEN [r EXCEPT !.pc = "closeInvalid"]
            ELSE AfterParse(r, "updateOne")
      [] r.op = "delete" -> AfterParse(r, "deleteOne")
      [] r.op = "get" -> AfterParse(r, "findOne")

\* connectToMongoDB(connectionString) settles in a route
RouteConnect(c) ==
    /\ calls[c].pc = "connect"
    /\ \/ Returns /\ SetCall(c, AfterConnect([calls[c] EXCEPT !.client = "open"]))
       \/ Raises /\ SetCall(c, CatchRoute(calls[c]))
    /\ UNCHANGED <<cloner, collection>>

\* part_000:82: listDatabases() settles
ListDatabases(c) ==
    /\ calls[c].pc = "listDatabases"
    /\ \/ Returns /\ SetCall(c, [calls[c] EXCEPT !.pc = "close"])
       \/ Raises /\ SetCall(c, CatchRoute(calls[c]))
    /\ UNCHANGED <<cloner, collection>>

\* part_000:182: listCollections().toArray() settles
RouteListCollections(c) ==
    /\ calls[c].pc = "listCollections"
    /\ \/ Returns /\ SetCall(c, [calls[c] EXCEPT !.pc = "closeFirst"])
       \/ Raises /\ SetCall(c, CatchRoute(calls[c]))
    /\ UNCHANGED <<cloner, collection>>

\* part_000:183: client.close() settles in the collections route
CloseFirst(c) ==
    /\ calls[c].pc = "closeFirst"
    /\ \/ Returns /\ SetCall(c, [calls[c] EXCEPT !.client = "closed", !.pc = "connectStats"])
       \/ Raises /\ SetCall(c, CatchRoute([calls[c] EXCEPT !.client = "closeFailed"]))
    /\ UNCHANGED <<cloner, collection>>

\* part_000:187: the second connectToMongoDB(connectionString) settles
ConnectStats(c) ==
    /\ calls[c].pc = "connectStats"
    /\ \/ Returns /\ SetCall(c, [calls[c] EXCEPT !.clientStats = "open",
                                                !.pc = "countDocuments"])
       \/ Raises /\ SetCall(c, CatchRoute(calls[c]))
    /\ UNCHANGED <<cloner, collection>>

\* part_000:192: countDocuments() settles; the inner catch takes its error
CountStats(c) ==
    /\ calls[c].pc = "countDocuments"
    /\ \/ Returns /\ SetCall(c, [calls[c] EXCEPT !.pc = "findOneSample"])
       \/ Raises /\ SetCall(c, [calls[c] EXCEPT !.pc = "closeStats"])
    /\ UNCHANGED <<cloner, collection>>

\* part_000:193: findOne({}) settles; the inner catch takes its error
FindOneSample(c) ==
    /\ calls[c].pc = "findOneSample"
    /\ \/ Returns /\ SetCall(c, [calls[c] EXCEPT !.pc = "closeStats"])
       \/ Raises /\ SetCall(c, [calls[c] EXCEPT !.pc = "closeStats"])
    /\ UNCHANGED <<cloner, collection>>

\* part_000:212-217: clientStats.close() settles
CloseStats(c) ==
    /\ calls[c].pc = "closeStats"
    /\ \/ Returns /\ SetCall(c, Answer([calls[c] EXCEPT !.clientStats = "closed"],
                                       200, "collections"))
       \/ Raises /\ SetCall(c, CatchRoute([calls[c] EXCEPT !.clientStats = "closeFailed"]))
    /\ UNCHANGED <<cloner, collection>>

\* part_000:251: find(parsedFilter).skip(skip).limit(limit).toArray() settles; the
\* driver rejects a filter that is no object
FindPage(c) ==
    LET skip == (page - 1) * limit
        found == Select(calls[c].parsedFilter, collection)
    IN
    /\ calls[c].pc = "findPage"
    /\ \/ /\ calls[c].parsedFilter.typeof = "object"
          /\ Returns
          /\ SetCall(c, [calls[c] EXCEPT
                            !.documents = Limit(limit, SubSeq(found, skip + 1, Len(found))),
                            !.pc = "countFiltered"])
       \/ /\ calls[c].parsedFilter.typeof # "object"    \* raises whatever the budget
          /\ UNCHANGED faults
          /\ SetCall(c, CatchRoute(calls[c]))
       \/ Raises /\ SetCall(c, CatchRoute(calls[c]))
    /\ UNCHANGED <<cloner, collection>>

\* part_000:252-255: countDocuments(parsedFilter) settles
CountFiltered(c) ==
    /\ calls[c].pc = "countFiltered"
    /\ \/ Returns /\ SetCall(c, [calls[c] EXCEPT
                                     !.totalCount = Len(Select(calls[c].parsedFilter, collection)),
                                     !.pc = "findSample"])
       \/ Raises /\ SetCall(c, CatchRoute(calls[c]))
    /\ UNCHANGED <<cloner, collection>>

\* part_000:255-257: find({}).limit(sampleSize).toArray() settles, then generateSchema
FindSample(c) ==
    /\ calls[c].pc = "findSample"
    /\ \/ /\ Returns
          /\ LET sampleSize == Min(100, calls[c].totalCount)
                 sampleDocs == Limit(sampleSize, collection)
                 made == generateSchema(sampleDocs)
                 r == [calls[c] EXCEPT !.sampled = TRUE, !.sampleDocs = sampleDocs]
             IN SetCall(c, IF made.threw THEN CatchRoute(r)
                           ELSE [r EXCEPT !.schema = made.schema, !.pc = "close"])
       \/ Raises /\ SetCall(c, CatchRoute(calls[c]))
    /\ UNCHANGED <<cloner, collection>>

\* part_000:299-300, 339-340: client.close() settles after JSON.parse threw
CloseInvalid(c) ==
    /\ calls[c].pc = "closeInvalid"
    /\ \/ Returns /\ SetCall(c, Answer([calls[c] EXCEPT !.client = "closed"], 400, "error"))
       \/ Raises /\ SetCall(c, CatchRoute([calls[c] EXCEPT !.client = "closeFailed"]))
    /\ UNCHANGED <<cloner, collection>>

\* part_000:304: insertOne(parsedDocument) settles
InsertOne(c) ==
    /\ calls[c].pc = "insertOne"
    /\ \/ /\ Returns
          /\ collection' = Append(collection, WithId(NewBody, MaxDocs + c))
          /\ SetCall(c, [calls[c] EXCEPT !.matched = 1, !.pc = "close"])
       \/ /\ Raises
          /\ UNCHANGED collection
          /\ SetCall(c, CatchRoute(calls[c]))
    /\ UNCHANGED cloner

\* part_000:345-348: updateOne({_id}, {$set: parsedUpdates}) settles
UpdateOne(c) ==
    LET hit == Matching(ObjectIdOf(calls[c].documentId)) IN
    /\ calls[c].pc = "updateOne"
    /\ \/ /\ Returns
          /\ collection' = [k \in 1..Len(collection) |->
                               IF k \in hit THEN Updates @@ collection[k] ELSE collection[k]]
          /\ SetCall(c, [calls[c] EXCEPT !.matched = Cardinality(hit), !.pc = "close"])
       \/ /\ Raises
          /\ UNCHANGED collection
          /\ SetCall(c, CatchRoute(calls[c]))
    /\ UNCHANGED cloner

\* part_000:383: deleteOne({_id}) settles
DeleteOne(c) ==
    LET hit == Matching(ObjectIdOf(calls[c].documentId)) IN
    /\ calls[c].pc = "deleteOne"
    /\ \/ /\ Returns
          /\ collection' = SelectSeq(collection,
                                     LAMBDA d : d["_id"] # ObjectIdValue(ObjectIdOf(calls[c].documentId)))
          /\ SetCall(c, [calls[c] EXCEPT !.matched = Cardinality(hit), !.pc = "close"])
       \/ /\ Raises
          /\ UNCHANGED collection
          /\ SetCall(c, CatchRoute(calls[c]))
    /\ UNCHANGED cloner

\* part_000:418: findOne({_id}) settles
FindOne(c) ==
    LET hit == Matching(ObjectIdOf(calls[c].documentId)) IN
    /\ calls[c].pc = "findOne"
    /\ \/ Returns /\ SetCall(c, [calls[c] EXCEPT !.matched = Cardinality(hit), !.pc = "close"])
       \/ Raises /\ SetCall(c, CatchRoute(calls[c]))
    /\ UNCHANGED <<cloner, collection>>

\* the answer of a route after its client.close() returned
AfterClose(r) ==
    CASE r.op = "test" -> Answer(r, 200, "databases")
      [] r.op = "documents" -> Answer(r, 200, "documents")
      [] r.op = "create" -> Answer(r, 200, "created")
      [] r.op = "update" ->
            IF r.matched = 0 THEN Answer(r, 404, "error") ELSE Answer(r, 200, "updated")
      [] r.op = "delete" ->
            IF r.matched = 0 THEN Answer(r, 404, "error") ELSE Answer(r, 200, "deleted")
      [] r.op = "get" ->
            IF r.matched = 0 THEN Answer(r, 404, "error") ELSE Answer(r, 200, "document")

\* part_000:83, 259, 305, 350, 385, 420: client.close() settles
RouteClose(c) ==
    /\ calls[c].pc = "close"
    /\ \/ Returns /\ SetCall(c, AfterClose([calls[c] EXCEPT !.client = "closed"]))
       \/ Raises /\ SetCall(c, CatchRoute([calls[c] EXCEPT !.client = "closeFailed"]))
    /\ UNCHANGED <<cloner, collection>>

\* a route resumes after the await it is suspended at
RouteStep(c) ==
    \/ RouteConnect(c)
    \/ ListDatabases(c)
    \/ RouteListCollections(c)
    \/ CloseFirst(c)
    \/ ConnectStats(c)
    \/ CountStats(c)
    \/ FindOneSample(c)
    \/ CloseStats(c)
    \/ FindPage(c)
    \/ CountFiltered(c)
    \/ FindSample(c)
    \/ CloseInvalid(c)
    \/ InsertOne(c)
    \/ UpdateOne(c)
    \/ DeleteOne(c)
    \/ FindOne(c)
    \/ RouteClose(c)

\* the database routes on a collection of Collections; documents are listed with
\* no filter
BrowserNext ==
    \/ \E op \in Ops \ {"documents"}, cs \in Inputs, id \in DocumentIds,
         text \in Texts \ {"blank"} :
          DatabaseRequest(op, cs, "given", "given", id, text)
    \/ \E cs \in Inputs : DatabaseRequest("documents", cs, "given", "given", "", "")
    \/ \E c \in Calls : RouteStep(c)

InitBrowser ==
    /\ clock = 1
    /\ cloningJobs = [id \in {} |-> 0]
    /\ job = <<>>
    /\ eng = <<>>
    /\ source \in RegistrySources
    /\ target \in {t \in Targets : \A n \in DOMAIN t : ~t[n].exists}
    /\ reply = <<>>
    /\ divByZero = <<>>
    /\ srcWrites = 0
    /\ faults = 0
    /\ collection \in Collections
    /\ calls = <<>>

SpecBrowser == InitBrowser /\ [][BrowserNext]_vars

\* the routes that take JSON text: documents (filter), create (document), update
\* (updates)
ParsingOps == {"documents", "create", "update"}

\* a parsing route resumes after the await it is suspended at
ParsingStep(c) ==
    \/ RouteConnect(c)
    \/ FindPage(c)
    \/ CountFiltered(c)
    \/ FindSample(c)
    \/ CloseInvalid(c)
    \/ InsertOne(c)
    \/ UpdateOne(c)
    \/ RouteClose(c)

ParsingNext ==
    \/ \E op \in ParsingOps, cs \in Inputs,
         id \in {"not-an-object-id", ObjectIdStrings[1]}, text \in Texts :
          DatabaseRequest(op, cs, "given", "given", id, text)
    \/ \E c \in Calls : ParsingStep(c)

SpecParsing == InitBrowser /\ [][ParsingNext]_vars

\* every handler and every step, interleaved
Next ==
    \/ Tick
    \/ \E name \in CollNames, n \in DocSizes : SourceWrite(name, n)
    \/ \E sc \in Inputs, tc \in Inputs, db \in Inputs : CloneDatabaseRequest(sc, tc, db)
    \/ \E id \in JobIds : CloneStatusRequest(id)
    \/ JobsRequest
    \/ \E id \in JobIds : DeleteJobRequest(id)
    \/ \E e \in Engines : Step(e)
    \/ \E op \in Ops, cs \in Inputs, id \in DocumentIds, text \in Texts :
          DatabaseRequest(op, cs, "given", "given", id, text)
    \/ \E c \in Calls : RouteStep(c)

Spec == Init /\ [][Next]_vars

----------------------------------------------------------------------------
(* Properties *)

Terminal(status) == status \in {"completed", "failed"}

StatusRank(status) ==
    CASE status = "starting" -> 0
      [] status = "connecting" -> 1
      [] status = "analyzing" -> 2
      [] status = "cloning" -> 3
      [] status = "completed" -> 4
      [] status = "failed" -> 4

\* the errors of job e that index creations appended
IndexFailures(e) ==
    Cardinality({k \in 1..Len(job[e].errors) :
                    job[e].errors[k][1] = "Failed to create index "})

\* C1: the status of every job only moves forward along starting, connecting,
\* analyzing, cloning, (completed | failed), and a completed or failed status never
\* changes again.
C1_StatusForward ==
    [][\A e \in 1..Len(job) :
          /\ StatusRank(job'[e].status) >= StatusRank(job[e].status)
          /\ Terminal(job[e].status) => job'[e].status = job[e].status]_vars

\* a job that failed while cloning and whose engine then closed both connections
C1_Witness ==
    \E e \in Engines : /\ job[e].status = "failed"
                       /\ job[e].processedDocuments > 0
                       /\ eng[e].pc = "done"
                       /\ eng[e].tgtConn = "closed"

\* C2: no two clone requests get the same job identifier, so the registry holds
\* one job per identifier and a create never replaces an entry.
C2_UniqueJobIds ==
    \A e1 \in Engines, e2 \in Engines : e1 # e2 => job[e1].id # job[e2].id

\* C3: when the engine has left cloneDatabase, every connection it opened has been
\* closed (or its own close() raised).
C3_ConnectionsReleased ==
    \A e \in Engines :
        eng[e].pc = "done" => eng[e].srcConn # "open" /\ eng[e].tgtConn # "open"

\* C4: once totalDocuments is known and positive, progress is
\* round(processedDocuments / totalDocuments * 100), in both terminal states too.
C4_ProgressIsRatio ==
    \A e \in Engines :
        job[e].status \in {"cloning", "completed", "failed"} /\ job[e].totalDocuments > 0
        => job[e].progress = (200 * job[e].processedDocuments + job[e].totalDocuments)
                                \div (2 * job[e].totalDocuments)

\* C5: a job whose counting pass found no document has progress 100 from then on
\* and never divides by totalDocuments.
C5_EmptyMeansDone ==
    \A e \in Engines :
        job[e].status \in {"cloning", "completed"} /\ job[e].totalDocuments = 0
        => job[e].progress = 100 /\ ~divByZero[e]

\* C6: progress is an integer from 0 to 100 in every state of every job.
C6_ProgressInRange ==
    \A e \in Engines : job[e].progress \in 0..100

\* C7: a completed job has processedCollections = totalCollections = N
\* and processedDocuments = totalDocuments = D.
C7_CompletedCounts ==
    \A e \in Engines :
        job[e].status = "completed"
        => /\ job[e].processedCollections = job[e].totalCollections
           /\ job[e].totalCollections = Len(job[e].collections)
           /\ job[e].processedDocuments = job[e].totalDocuments

\* C8: until the engine is resumed for the first time, the entry a clone request
\* created has status starting, progress 0, zero counters, no collections, no
\* errors, no endTime and a startTime.
C8_CreatedIsStarting ==
    \A e \in Engines :
        eng[e].pc = "connectSource"
        => /\ job[e].status = "starting"
           /\ job[e].progress = 0
           /\ job[e].totalCollections = 0 /\ job[e].processedCollections = 0
           /\ job[e].totalDocuments = 0 /\ job[e].processedDocuments = 0
           /\ job[e].collections = <<>> /\ job[e].errors = <<>>
           /\ job[e].endTime = undefined
           /\ job[e].startTime \in 1..MaxClock

\* C9: a clone request with its three inputs answers success with the identifier
\* of the entry it put in the registry, and that answer stands whatever becomes of
\* the job; a request that misses an input answers an error, writes nothing and
\* starts no engine.
C9_CloneRequestAnswer ==
    /\ \A sc \in Inputs, tc \in Inputs, db \in Inputs :
          LET r == CloneDatabase(sc, tc, db) IN
          IF sc = "" \/ tc = "" \/ db = ""
          THEN /\ r.res.status = 400
               /\ r.cloningJobs = cloningJobs
               /\ r.job = job
               /\ r.eng = eng
          ELSE /\ r.res.status = 200
               /\ r.res.jobId \in DOMAIN r.cloningJobs
               /\ r.cloningJobs[r.res.jobId] = Len(job) + 1
               /\ r.job[Len(job) + 1].id = r.res.jobId
               /\ Len(r.eng) = Len(eng) + 1
    /\ \A e \in Engines :
          /\ reply[e].status = 200
          /\ reply[e].jobId = job[e].id

\* a job that failed, whose request was answered with success
C9_Witness ==
    \E e \in Engines : /\ job[e].status = "failed"
                       /\ eng[e].pc = "done"
                       /\ reply[e] = Started(job[e].id)

\* a createIndex() that raises appends one message to errors and changes nothing
\* else: the engine goes on as after a createIndex() that returned
C10_IndexFailureStep ==
    \A e \in 1..Len(job) :
        eng[e].pc = "createIndex" /\ eng'[e] # eng[e] /\ faults' = faults + 1
        => LET ok == IndexLoop(Ctx(e), eng[e].x + 1, clock)
               message == IndexError(eng[e].indexes[eng[e].x], CollectionName(e), DriverError)
           IN /\ job'[e].errors = Append(job[e].errors, message)
              /\ job'[e] = [ok.j EXCEPT !.errors = job'[e].errors]
              /\ eng'[e] = ok.g
              /\ eng'[e].pc \in {"createIndex", "drop", "closeSource"}
              /\ job'[e].status \in {"cloning", "completed"}
              /\ job'[e].status = "cloning" => job'[e].progress = job[e].progress
              /\ job'[e].processedDocuments = job[e].processedDocuments
              /\ job'[e].totalDocuments = job[e].totalDocuments
              /\ job'[e].totalCollections = job[e].totalCollections

\* C10: a createIndex() that raises appends one message to errors and changes
\* nothing else, the status does not become failed, and a job whose only raised
\* calls were index creations ends completed.
C10_IndexFailureIsNotFatal ==
    /\ [][C10_IndexFailureStep]_vars
    /\ [](\A e \in Engines :
             Terminal(job[e].status) /\ faults = IndexFailures(e)
             => job[e].status = "completed")

\* a completed job of two collections: creating ix1 on c1 failed, ix2 on c1 was
\* created after that
C10_Witness ==
    \E e \in Engines : /\ job[e].status = "completed"
                       /\ job[e].processedCollections = 2
                       /\ Len(job[e].errors) = 1
                       /\ job[e].errors[1] = IndexError("ix1", "c1", DriverError)
                       /\ "ix2" \in target["c1"].indexes

\* the positions of cloneDatabase at which a raised error reaches the outer catch
FatalAwaits ==
    {"connectSource", "connectTarget", "listCollections", "count", "find", "insert",
     "listIndexes"}

\* the messages of the errors that the await at position pc raises
MessagesAt(pc) ==
    IF pc \in {"connectSource", "connectTarget"}
    THEN {<<"Connection failed: ">> \o DriverError}
    ELSE IF pc = "insert" THEN {DriverError, DuplicateKey}
    ELSE {DriverError}

\* a step of engine e in which the awaited call raised at one of FatalAwaits: the job
\* becomes failed with the message last in errors and in details, and endTime set
C11_FatalStep ==
    \A e \in 1..Len(job) :
        eng[e].pc \in FatalAwaits /\ eng'[e] # eng[e] /\ faults' = faults + 1
        => \E m \in MessagesAt(eng[e].pc) :
              /\ job'[e].status = "failed"
              /\ job'[e].errors = Append(job[e].errors, m)
              /\ job'[e].details = <<"Error: ">> \o m
              /\ job'[e].endTime = <<clock>>
              /\ eng'[e].pc \in {"closeSource", "closeTarget", "done"}

\* a step of engine e after its job failed writes neither the target nor the job
C11_NothingAfterFailure ==
    \A e \in 1..Len(job) :
        job[e].status = "failed" /\ eng'[e] # eng[e]
        => /\ target' = target
           /\ job'[e] = job[e]
           /\ eng'[e].pc \in {"closeTarget", "done"}

\* C11: an error raised while connecting, enumerating or counting collections,
\* fetching documents, inserting a batch or listing indexes moves the job to failed,
\* appends its message as the last element of errors, sets details to the error and
\* sets endTime; after that the engine drops and writes no collection of the target,
\* so collections already copied stay as they are.
C11_FatalErrorAborts ==
    /\ [][C11_FatalStep]_vars
    /\ [][C11_NothingAfterFailure]_vars
    /\ [](\A e \in Engines : job[e].status = "failed" /\ eng[e].pc = "done"
             => eng[e].i < Len(eng[e].collections) \/ eng[e].collections = <<>>)

\* a job that failed at the insert of its second collection after an index failure
\* on the first one: the first collection stays copied in the target
C11_Witness ==
    \E e \in Engines : /\ job[e].status = "failed"
                       /\ eng[e].pc = "done"
                       /\ job[e].processedCollections = 1
                       /\ Len(job[e].errors) = 2
                       /\ job[e].errors[2] = DriverError
                       /\ target["c1"].docs = 1..1
                       /\ ~target["c2"].exists

RECURSIVE Sum(_)
Sum(s) == IF s = <<>> THEN 0 ELSE Head(s) + Sum(Tail(s))

\* C12: when a job is completed, every target collection named like a source
\* collection holds exactly the documents the engine fetched for it (_id 1..n, with
\* the n of all collections adding up to processedDocuments) and none of the
\* documents the target held before the clone, whatever drop() did.
C12_TargetMirrorsFetched ==
    \A e \in Engines :
        job[e].status = "completed"
        => /\ \A k \in 1..Len(job[e].collections) :
                 LET docs == target[job[e].collections[k]].docs IN
                 docs = 1..Cardinality(docs)
           /\ Sum([k \in 1..Len(job[e].collections) |->
                      Cardinality(target[job[e].collections[k]].docs)])
                 = job[e].processedDocuments

\* C13: when a job is completed, the target database holds exactly the collections
\* of the source database: a collection the target held before the clone that has
\* no same-named collection in the source is gone.
C13_TargetCompletelyOverwritten ==
    \A e \in Engines :
        job[e].status = "completed"
        => \A n \in TargetNames : target[n].exists <=> n \in Range(job[e].collections)

\* the identifiers a request may name: those the clock can produce and one it cannot
RequestedIds == JobIds \cup {"0"}

\* C14: for every job identifier the registry does not hold, the status request
\* answers not-found, the delete request answers not-found, and the delete request
\* leaves the registry as it is (neither handler writes a job object).
C14_AbsentIsNotFound ==
    \A id \in RequestedIds :
        id \notin DOMAIN cloningJobs
        => /\ CloneStatus(id) = Response(404, "error")
           /\ DeleteJob(id).res = Response(404, "error")
           /\ DeleteJob(id).cloningJobs = cloningJobs

\* the registry holds one job while the identifier of a job that was created and
\* deleted is absent from it
C14_Witness ==
    \E e1 \in Engines, e2 \in Engines :
        /\ job[e1].id \notin DOMAIN cloningJobs
        /\ job[e2].id \in DOMAIN cloningJobs
        /\ cloningJobs[job[e2].id] = e2

\* C15: the list holds every job that was created and not deleted, whatever its
\* status: a clone request puts its job in the list, and a job leaves the list only
\* in a step that deletes its own identifier from the registry.
C15_ListedUntilDeleted ==
    [][/\ Len(job') > Len(job) => Len(job') \in (Jobs.jobs)'
       /\ \A e \in 1..Len(job) :
             e \in Jobs.jobs /\ e \notin (Jobs.jobs)'
             => job[e].id \notin DOMAIN cloningJobs']_vars

\* the registry no longer holds the job object of engine e
Detached(e) == job[e].id \notin DOMAIN cloningJobs \/ cloningJobs[job[e].id] # e

\* a step of a detached engine in which no driver call raised leaves its job not
\* failed and does not touch the registry
C16_DetachedStep ==
    \A e \in 1..Len(job) :
        Detached(e) /\ eng'[e] # eng[e]
        => /\ cloningJobs' = cloningJobs
           /\ faults' = faults /\ job[e].status # "failed" => job'[e].status # "failed"

\* C16: deleting a job that is not terminal does not stop its engine: whatever the
\* registry holds, the engine can take its next step until it has left
\* cloneDatabase with its connections closed, and a step whose driver call did not
\* raise never fails the job.
C16_DeleteDoesNotStopEngine ==
    /\ [](\A e \in Engines : eng[e].pc # "done" => ENABLED Step(e))
    /\ [](\A e \in Engines :
             eng[e].pc = "done" /\ faults = 0
             => job[e].status = "completed" /\ eng[e].srcConn = "closed"
                /\ eng[e].tgtConn = "closed")
    /\ [][C16_DetachedStep]_vars

\* a job that is deleted and not terminal: its engine has copied the documents of
\* c1 and is waiting for createIndex()
C16_Witness ==
    \E e \in Engines : /\ job[e].id \notin DOMAIN cloningJobs
                       /\ Len(job) = 1
                       /\ job[e].status = "cloning"
                       /\ job[e].processedDocuments = 1
                       /\ target["c1"].docs = 1..1
                       /\ eng[e].pc = "createIndex"

\* C17: with clone jobs interleaved, a step that changes a job object is a step of
\* that job's engine and changes no other job object and no other engine; the
\* status request and the list request change nothing.
C17_OwnJobOnly ==
    [][\A e \in 1..Len(job) :
          job'[e] # job[e]
          => /\ eng'[e] # eng[e]
             /\ \A f \in 1..Len(job) : f # e => job'[f] = job[f] /\ eng'[f] = eng[f]]_vars

\* two jobs with the same identifier run interleaved, each with its own progress
C17_Witness ==
    /\ Len(job) = 2
    /\ job[1].id = job[2].id
    /\ job[1].status = "cloning" /\ job[1].processedDocuments = 1
    /\ job[2].status = "analyzing"

\* the documentId of call c is given and is not the 24 hex digits of an ObjectId
Malformed(c) ==
    /\ calls[c].op \in {"update", "delete", "get"}
    /\ calls[c].documentId # ""
    /\ ~IsHexString(calls[c].documentId)

\* C18: an update, delete or get request with a malformed documentId is answered
\* with a client error (400): not with not-found, and not with a success that
\* modified or removed a document.
C18_MalformedIdIsClientError ==
    \A c \in Calls :
        Malformed(c) /\ calls[c].pc = "done" => calls[c].res.status = 400

\* C19: when a database route has answered, every connection it opened has been
\* closed (or its close() was attempted and raised), on the error paths too.
C19_RoutesCloseConnections ==
    \A c \in Calls :
        calls[c].pc = "done" => calls[c].client # "open" /\ calls[c].clientStats # "open"

\* the documents of a sample that have the key field
Having(documents, field) == {k \in 1..Len(documents) : field \in DOMAIN documents[k]}

\* C20: for every sample the documents route fetched, generateSchema returns a
\* schema with a field for each key of at least one document and no other field;
\* the field's count is the number of documents with the key, its percentage is
\* round(count / sampleSize * 100) and its types are the kinds of the key's values;
\* the empty sample gives no field.
C20_SchemaOfSample ==
    \A c \in Calls :
        calls[c].sampled
        => LET documents == calls[c].sampleDocs
               size == Len(documents)
               made == generateSchema(documents)
           IN /\ ~made.threw
              /\ DOMAIN made.schema = UNION {DOMAIN documents[k] : k \in 1..size}
              /\ \A field \in DOMAIN made.schema :
                    LET count == Cardinality(Having(documents, field)) IN
                    /\ made.schema[field].required = count
                    /\ made.schema[field].requiredPercentage
                          = (200 * count + size) \div (2 * size)
                    /\ Range(made.schema[field].types)
                          = {TypeOf(documents[k][field]) : k \in Having(documents, field)}
                    /\ Len(made.schema[field].types)
                          = Cardinality(Range(made.schema[field].types))

\* C21: whatever drop() does, the step after it changes nothing of the job (status
\* and errors included) and takes the engine to the fetch of the same collection.
C21_DropNeverFails ==
    [][\A e \in 1..Len(job) :
          eng[e].pc = "drop" /\ eng'[e] # eng[e]
          => /\ job'[e] = job[e]
             /\ eng'[e] = [eng[e] EXCEPT !.pc = "find"]]_vars

\* drop() raised on the existing target collection c1 and the job goes on: the
\* engine has fetched the documents of c1 and is about to insert them
C21_Witness ==
    \E e \in Engines : /\ faults = 1
                       /\ eng[e].pc = "insert"
                       /\ eng[e].i = 0
                       /\ target["c1"].exists /\ 0 \in target["c1"].docs
                       /\ job[e].status = "cloning"
                       /\ job[e].errors = <<>>

\* C22: a step of a job's engine changes the target database only while the job's
\* status is cloning, and once the status is cloning, completed or failed the job's
\* totalDocuments, totalCollections and collections stay as they are.
C22_AnalysisBeforeCopy ==
    [][\A e \in 1..Len(job) :
          /\ (eng'[e] # eng[e] /\ target' # target) => job[e].status = "cloning"
          /\ job[e].status \in {"cloning", "completed", "failed"}
             => /\ job'[e].totalDocuments = job[e].totalDocuments
                /\ job'[e].totalCollections = job[e].totalCollections
                /\ job'[e].collections = job[e].collections]_vars

\* the job counted two collections and only then wrote to the target: the first
\* collection is copied, the second is under way
C22_Witness ==
    \E e \in Engines : /\ job[e].status = "cloning"
                       /\ job[e].totalCollections = 2
                       /\ job[e].totalDocuments > 0
                       /\ job[e].processedCollections = 1
                       /\ target[job[e].collections[1]].exists
                       /\ target[job[e].collections[1]].docs # {}

\* the awaits of one collection, in the order the loop body reaches them
CollectionOrder ==
    {<<"drop", "find">>, <<"find", "insert">>, <<"find", "listIndexes">>,
     <<"insert", "insert">>, <<"insert", "listIndexes">>,
     <<"listIndexes", "createIndex">>, <<"createIndex", "createIndex">>}

\* engine e is at the last await of its collection: listIndexes whose result holds
\* no index to copy, or createIndex of the last index to copy
LastIndexAttempt(e) ==
    \/ /\ eng[e].pc = "listIndexes"
       /\ LET indexes == source.indexes[CollectionName(e)]
          IN NextIndex(indexes, 1) > Len(indexes)
    \/ /\ eng[e].pc = "createIndex"
       /\ NextIndex(eng[e].indexes, eng[e].x + 1) > Len(eng[e].indexes)

\* a step of engine e while its job is cloning: either it stays in the collection,
\* moving along CollectionOrder, or it ends the collection after its last index
\* attempt, counts it and goes to the drop of the next one (or completes), or it fails
C23_CollectionStep ==
    \A e \in 1..Len(job) :
        job[e].status = "cloning" /\ eng'[e] # eng[e]
        => \/ /\ job'[e].status = "cloning"
              /\ job'[e].processedCollections = job[e].processedCollections
              /\ job'[e].currentCollection = job[e].currentCollection
              /\ <<eng[e].pc, eng'[e].pc>> \in CollectionOrder
           \/ /\ LastIndexAttempt(e)
              /\ job'[e].processedCollections = job[e].processedCollections + 1
              /\ \/ job'[e].status = "cloning" /\ eng'[e].pc = "drop"
                 \/ /\ job'[e].status = "completed"
                    /\ job'[e].processedCollections = job[e].totalCollections
           \/ /\ job'[e].status = "failed"
              /\ job'[e].processedCollections = job[e].processedCollections

\* C23: while a job is cloning, currentCollection is the collection at position
\* processedCollections + 1 of job.collections; the awaits of a collection run in the
\* order drop, fetch, batch inserts, index creations; processedCollections grows by
\* exactly 1 and only after the collection's last index attempt; and
\* 0 <= processedCollections <= totalCollections in every state.
C23_OneCollectionAtATime ==
    /\ [][C23_CollectionStep]_vars
    /\ [][\A e \in 1..Len(job) : job[e].status # "cloning"
             => job'[e].processedCollections = job[e].processedCollections]_vars
    /\ [](\A e \in Engines :
             /\ job[e].processedCollections \in 0..job[e].totalCollections
             /\ job[e].status = "cloning"
                => /\ job[e].processedCollections < Len(job[e].collections)
                   /\ job[e].currentCollection
                          = job[e].collections[job[e].processedCollections + 1])

\* the first of two collections is counted as processed and the engine is creating
\* an index of the second one
C23_Witness ==
    \E e \in Engines : /\ job[e].status = "cloning"
                       /\ job[e].totalCollections = 2
                       /\ job[e].processedCollections = 1
                       /\ job[e].currentCollection = job[e].collections[2]
                       /\ eng[e].pc = "createIndex"

\* ceil(n / batchSize)
Batches(n) == (n + batchSize - 1) \div batchSize

\* a step of engine e from the fetch or from an insert. The fetch of n documents
\* leads to the insert at j = 0, or past the loop when n = 0. The insert at j is the
\* (j / batchSize + 1)-th of the collection and carries the documents j+1 .. j+1000
\* (the last one fewer); when it returns, the batch is in the target,
\* processedDocuments has grown by the batch's size, and the next insert is at
\* j + batchSize unless this was insert number ceil(n / batchSize); when it raises,
\* processedDocuments is as before.
C24_BatchStep ==
    \A e \in 1..Len(job) :
        LET n == eng[e].documents
            j == eng[e].j
            batch == Slice(n, j)
        IN
        /\ eng[e].pc = "find" /\ eng'[e] # eng[e] /\ job'[e].status = "cloning"
           => IF eng'[e].documents = 0
              THEN eng'[e].pc = "listIndexes"
              ELSE eng'[e].pc = "insert" /\ eng'[e].j = 0
        /\ eng[e].pc = "insert" /\ eng'[e] # eng[e]
           => /\ j % batchSize = 0 /\ j < n
              /\ Cardinality(batch) \in 1..batchSize
              /\ Cardinality(batch) < batchSize => j \div batchSize + 1 = Batches(n)
              /\ IF job'[e].status = "cloning"
                 THEN /\ batch \cap target[CollectionName(e)].docs = {}
                      /\ batch \subseteq target'[CollectionName(e)].docs
                      /\ job'[e].processedDocuments
                             = job[e].processedDocuments + Cardinality(batch)
                      /\ eng'[e].documents = n
                      /\ IF j \div batchSize + 1 = Batches(n)
                         THEN eng'[e].pc = "listIndexes"
                         ELSE eng'[e].pc = "insert" /\ eng'[e].j = j + batchSize
                 ELSE /\ job'[e].status = "failed"
                      /\ job'[e].processedDocuments = job[e].processedDocuments

\* C24: a collection fetched with n documents gets exactly ceil(n / 1000) inserts
\* (none when n = 0) of consecutive disjoint slices of at most 1000 documents, all but
\* the last of exactly 1000; each insert that returns adds its batch's size to
\* processedDocuments, and an insert that raises adds nothing.
C24_BatchedInserts ==
    /\ [][C24_BatchStep]_vars
    /\ [][\A e \in 1..Len(job) : eng[e].pc # "insert"
             => job'[e].processedDocuments = job[e].processedDocuments]_vars

\* both inserts of a collection fetched with 1001 documents returned: 1000 and 1
\* documents, all counted and all in the target
C24_Witness ==
    \E e \in Engines : /\ eng[e].pc = "listIndexes"
                       /\ eng[e].i = 0
                       /\ eng[e].documents = batchSize + 1
                       /\ job[e].processedDocuments = batchSize + 1
                       /\ target[CollectionName(e)].docs = 1..(batchSize + 1)

\* C25: in every state a job's endTime is set exactly when its status is completed
\* or failed; once set it stays as it is, and startTime stays as it was created.
C25_EndTimeIffTerminal ==
    /\ [](\A e \in 1..Len(job) :
             job[e].endTime # undefined <=> job[e].status \in {"completed", "failed"})
    /\ [][\A e \in 1..Len(job) :
             /\ job'[e].startTime = job[e].startTime
             /\ job[e].endTime # undefined => job'[e].endTime = job[e].endTime]_vars

\* one job ended after the clock moved on from its start, while another job, created
\* later, is still running with no endTime
C25_Witness ==
    \E e, f \in 1..Len(job) : /\ job[e].status \in {"completed", "failed"}
                              /\ job[e].endTime = <<job[e].startTime + 1>>
                              /\ eng[e].pc = "done"
                              /\ job[f].status = "connecting"
                              /\ job[f].endTime = undefined

\* C26: whenever a job's status is not cloning, its currentCollection is absent
\* (null as created).
C26_CurrentCollectionOnlyWhileCloning ==
    \A e \in Engines : job[e].status # "cloning" => job[e].currentCollection = null

\* a step of engine e either leaves errors as it is or appends one message: the
\* message of the failed index when createIndex raised and the job goes on, the
\* fatal message when the job becomes failed. A createIndex that raised always
\* appends, and a createIndex that returned appends nothing.
C27_ErrorsStep ==
    \A e \in 1..Len(job) :
        LET raised == faults' = faults + 1 IN
        \/ /\ job'[e].errors = job[e].errors
           /\ ~(eng'[e] # eng[e] /\ eng[e].pc = "createIndex" /\ raised)
           /\ job'[e].status = "failed" => job[e].status = "failed"
        \/ /\ eng'[e] # eng[e] /\ eng[e].pc = "createIndex" /\ raised
           /\ job'[e].status # "failed"
           /\ job'[e].errors
                  = Append(job[e].errors,
                           IndexError(eng[e].indexes[eng[e].x], CollectionName(e), DriverError))
        \/ /\ eng'[e] # eng[e] /\ eng[e].pc \in FatalAwaits /\ raised
           /\ job[e].status # "failed" /\ job'[e].status = "failed"
           /\ \E m \in MessagesAt(eng[e].pc) : job'[e].errors = Append(job[e].errors, m)

\* C27: errors is append-only. Since only a failed index creation and the fatal
\* error append to it, one message each, a completed job's errors are the failed
\* index creations, and a failed job's errors are the index creations that failed
\* before the fatal error followed by the fatal error's message.
C27_ErrorsAppendOnly ==
    /\ [][C27_ErrorsStep]_vars
    /\ [](\A e \in Engines :
             /\ job[e].status \notin {"failed"} => Len(job[e].errors) = IndexFailures(e)
             /\ job[e].status = "failed"
                => /\ Len(job[e].errors) = IndexFailures(e) + 1
                   /\ job[e].errors[Len(job[e].errors)][1] # "Failed to create index "
                   /\ job[e].details = <<"Error: ">> \o job[e].errors[Len(job[e].errors)])

\* a job that failed after one index creation had failed: two messages, the index's
\* first and the fatal one last
C27_Witness ==
    \E e \in Engines : /\ job[e].status = "failed"
                       /\ Len(job[e].errors) = 2
                       /\ job[e].errors[1][1] = "Failed to create index "
                       /\ job[e].errors[2] = DriverError

\* call c carries a non-empty string that JSON.parse rejects, as the filter of a
\* documents request
UnparsableFilter(c) == calls[c].op = "documents" /\ JsonParseThrows(calls[c].text)

\* call c carries a string that JSON.parse rejects, as the document of a create
\* request or the updates of an update request
UnparsableBody(c) == calls[c].op \in {"create", "update"} /\ JsonParseThrows(calls[c].text)

\* C28: a documents request with its required fields whose filter is a non-empty
\* string that cannot be parsed runs with the empty filter and, when no driver call
\* fails, is answered with success; a create or update request whose document or updates string cannot be
\* parsed is answered with a client error, writes nothing to the collection and
\* does not leave its connection open.
C28_ParseFailures ==
    /\ [](\A c \in Calls :
             /\ UnparsableFilter(c) /\ calls[c].client # "none"
                => calls[c].parsedFilter = EmptyFilter
             /\ UnparsableFilter(c) /\ calls[c].client # "none" /\ calls[c].pc = "done"
                /\ faults = 0
                => calls[c].res.status = 200
             /\ UnparsableBody(c) /\ calls[c].pc = "done"
                => calls[c].res.status = 400 /\ calls[c].client # "open")
    /\ [][\A c \in 1..Len(calls) :
             UnparsableBody(c) /\ calls'[c] # calls[c] => collection' = collection]_vars

\* C29: when every driver call settles, every clone job that was started
\* eventually has the status completed or failed.
C29_JobsTerminate ==
    \A e \in 1..MaxJobs : (e \in Engines) ~> (e \in Engines /\ Terminal(job[e].status))

\* the longest way to the end: a job completed after copying two collections, one of
\* them in two batches, with an index created on the second
C29_Witness ==
    \E e \in Engines : /\ job[e].status = "completed"
                       /\ job[e].processedCollections = 2
                       /\ job[e].processedDocuments > batchSize
                       /\ target[job[e].collections[2]].indexes # {}
                       /\ eng[e].pc = "done"

\* the registry holds no entry for the identifier of job e
Deleted(e) == job[e].id \notin DOMAIN cloningJobs

\* a step from a state in which job e is deleted: the identifier stays absent, the
\* status request for it answers not-found and the list omits job e, unless the step
\* is a clone request that was given the same identifier, whose new job then is the
\* entry; job e itself is never listed again
C30_DeletedStep ==
    \A e \in 1..Len(job) :
        Deleted(e)
        => /\ e \notin (Jobs.jobs)'
           /\ \/ /\ job[e].id \notin DOMAIN cloningJobs'
                 /\ CloneStatus(job[e].id)' = Response(404, "error")
              \/ /\ Len(job') = Len(job) + 1
                 /\ job'[Len(job')].id = job[e].id
                 /\ cloningJobs'[job[e].id] = Len(job')

\* C30: a delete request that answers success removes the entry, and from then on
\* no step of the job's engine or of any other handler puts it back: the status
\* request answers not-found and the list omits the job, until a clone request
\* returns the same identifier.
C30_DeletedStaysDeleted ==
    /\ [](\A id \in RequestedIds :
             DeleteJob(id).res.status = 200 => id \notin DOMAIN DeleteJob(id).cloningJobs)
    /\ [][C30_DeletedStep]_vars

\* a job deleted while its engine is counting, beside a later job that is listed
C30_Witness ==
    \E e1 \in Engines, e2 \in Engines :
        /\ Deleted(e1)
        /\ job[e1].status = "analyzing"
        /\ eng[e1].pc = "count"
        /\ job[e2].id # job[e1].id
        /\ Jobs.jobs = {e2}

\* the jobs that failed because insertMany met a document the target already held
FailedOnDuplicateKey ==
    {e \in Engines : job[e].errors # <<>> /\ job[e].errors[Len(job[e].errors)] = DuplicateKey}

\* no driver call raised for a reason outside the program: the only raises are the
\* duplicate keys
NoOutsideFailure == faults = Cardinality(FailedOnDuplicateKey)

\* C31: two jobs that clone the same database from the same unchanging source into
\* the same target, in any interleaving and with no failure from outside, both end
\* completed, and once both have left cloneDatabase every collection of the source
\* is in the target with exactly the source's documents.
C31_ConcurrentClonesAgree ==
    \A e1 \in Engines, e2 \in Engines :
        /\ e1 # e2
        /\ eng[e1].pc = "done" /\ eng[e2].pc = "done"
        /\ NoOutsideFailure
        => /\ job[e1].status = "completed" /\ job[e2].status = "completed"
           /\ \A k \in 1..Len(source.colls) :
                 /\ target[source.colls[k]].exists
                 /\ target[source.colls[k]].docs = 1..source.docs[source.colls[k]]

====
